---- MODULE Spec2Model ----
(***************************************************************************)
(* A model of jishaku/codeblocks.py: the codeblock scanner                 *)
(* (codeblock_converter) run one character per step, and the converter     *)
(* CodeblockFromMessage.convert that chooses the string handed to it.      *)
(*                                                                         *)
(* A Python str is modelled as a sequence of characters.                   *)
(* Optional[str] is modelled as a sequence too: None is the one-element    *)
(* sequence <<"None">>, which no str over Chars can equal.                 *)
(***************************************************************************)
EXTENDS Integers, Sequences, FiniteSets, TLC

VARIABLES pc, caller, rawArg, lookup, message, argument, i,
          last, backticks, in_language, in_code, language, code, result

vars == <<pc, caller, rawArg, lookup, message, argument, i,
          last, backticks, in_language, in_code, language, code, result>>

scanVars == <<last, backticks, in_language, in_code, language, code>>

(***************************************************************************)
(* Characters and bounded sets of inputs.                                  *)
(***************************************************************************)
\* Each character is named by a string: the backtick, the newline, the
\* space, and one character that is none of these.
Tick == "backtick"
NL == "newline"
Space == "space"
Letter == "a"
Chars == {Tick, NL, Space, Letter}

None == <<"None">>

\* Longest run of backticks put in front of and behind a direct argument.
MaxFence == 3
\* Longest text between those two runs.
MaxBody == 3
\* Longest text of a looked-up message.
MaxMsg == 4
\* Longest raw argument given to CodeblockFromMessage.convert.
MaxArg == 2

StrUpTo(n) == UNION {[1..k -> Chars] : k \in 0..n}

\* The raw arguments given to CodeblockFromMessage.convert: every string of
\* backticks and letters of at most MaxArg characters.
RawArgs == UNION {[1..k -> {Tick, Letter}] : k \in 0..MaxArg}

Ticks(n) == [j \in 1..n |-> Tick]

\* The arguments given directly to codeblock_converter: every string made of
\* at most MaxFence backticks, at most MaxBody characters, and at most
\* MaxFence backticks.
DirectArgs ==
    {Ticks(a) \o b \o Ticks(c) : a \in 0..MaxFence, b \in StrUpTo(MaxBody),
                                 c \in 0..MaxFence}

(***************************************************************************)
(* Python primitives used by the source.                                   *)
(***************************************************************************)
Min(a, b) == IF a < b THEN a ELSE b
Max(a, b) == IF a > b THEN a ELSE b

\* An index of a slice, as Python normalises it against a length.
PyIndex(k, len) == IF k < 0 THEN Max(k + len, 0) ELSE Min(k, len)

\* s[start:stop]
PySlice(s, start, stop) ==
    SubSeq(s, PyIndex(start, Len(s)) + 1, PyIndex(stop, Len(s)))

\* str.startswith
StartsWith(s, p) == Len(s) >= Len(p) /\ SubSeq(s, 1, Len(p)) = p

\* str.find: the lowest 0-based index where p occurs in s, or -1.
Find(s, p) ==
    LET hits == {k \in 0..(Len(s) - Len(p)) : SubSeq(s, k + 1, k + Len(p)) = p}
    IN  IF hits = {} THEN -1 ELSE CHOOSE k \in hits : \A h \in hits : k <= h

\* str.split on one space: the tokens between single spaces; never an empty list.
RECURSIVE Split(_)
Split(s) ==
    LET k == Find(s, <<Space>>)
    IN  IF k = -1 THEN <<s>>
        ELSE <<SubSeq(s, 1, k)>> \o Split(SubSeq(s, k + 2, Len(s)))

\* str.join with the empty string instead of one space
RECURSIVE Join_noSpace(_)
Join_noSpace(tokens) ==
    IF Len(tokens) = 0 THEN <<>>
    ELSE tokens[1] \o Join_noSpace(Tail(tokens))

\* str.join with one space
RECURSIVE Join(_)
Join(tokens) ==
    IF Len(tokens) = 0 THEN <<>>
    ELSE IF Len(tokens) = 1 THEN tokens[1]
    ELSE tokens[1] \o <<Space>> \o Join(Tail(tokens))

\* collections.deque(maxlen=3).append
WindowLen == 3
DequeAppend(d, c) ==
    IF Len(d) < WindowLen THEN Append(d, c) ELSE Append(Tail(d), c)

(***************************************************************************)
(* One iteration of the loop of codeblock_converter, field by field.       *)
(***************************************************************************)
LangFenceLen == 3

\* line 129 without its test of in_code
CountsTick_inCode(char, inCode, inLang) == char = Tick /\ ~inLang

\* line 129-130
CountsTick(char, inCode, inLang) == char = Tick /\ ~inCode /\ ~inLang

\* line 131 without its test that the character is not a backtick
AppendsCode_anyChar(char, lst, inCode, ticks) ==
    \/ Len(lst) > 0 /\ lst[Len(lst)] = Tick
    \/ inCode /\ lst # Ticks(ticks)

\* line 131 without its first alternative
AppendsCode_onlyInCode(char, lst, inCode, ticks) == inCode /\ lst # Ticks(ticks)

\* line 131
AppendsCode(char, lst, inCode, ticks) ==
    \/ Len(lst) > 0 /\ lst[Len(lst)] = Tick /\ char # Tick
    \/ inCode /\ lst # Ticks(ticks)

\* line 138 with a window that only has to end in a backtick
OpensLanguage_anyFence(char, lst) ==
    Len(lst) > 0 /\ lst[Len(lst)] = Tick /\ char # Tick

\* line 138
OpensLanguage(char, lst) == lst = Ticks(LangFenceLen) /\ char # Tick

\* The state of the loop as a record, and the effect of one character on it.
InitScan ==
    [last |-> <<>>, backticks |-> 0, in_language |-> FALSE, in_code |-> FALSE,
     language |-> <<>>, code |-> <<>>]

ScanStep(st, char) ==
    LET ticks == IF CountsTick(char, st.in_code, st.in_language)
                 THEN st.backticks + 1 ELSE st.backticks
        app == AppendsCode(char, st.last, st.in_code, ticks)
    IN  [last |-> DequeAppend(st.last, char),
         backticks |-> ticks,
         in_code |-> IF char = NL THEN TRUE ELSE (st.in_code \/ app),
         code |-> IF app THEN Append(st.code, char) ELSE st.code,
         in_language |-> IF char = NL THEN FALSE
                         ELSE IF OpensLanguage(char, st.last) THEN TRUE
                         ELSE st.in_language,
         language |-> IF char = NL THEN st.language
                      ELSE IF OpensLanguage(char, st.last) \/ st.in_language
                           THEN Append(st.language, char)
                      ELSE st.language]

\* lines 147-148: the salvage of the window into the code buffer
Salvaged(st) ==
    IF st.code = <<>> /\ st.language = <<>> THEN st.last ELSE st.code

\* line 150 with the closing fence taken to be three backticks long
SliceContent_three(cd, lang, ticks) == PySlice(cd, Len(lang), 0 - 3)

\* line 150 with the sign of the stop index lost
SliceContent_noSign(cd, lang, ticks) == PySlice(cd, Len(lang), ticks)

\* line 150
SliceContent(cd, lang, ticks) == PySlice(cd, Len(lang), 0 - ticks)

MakeResult(st) ==
    [language |-> st.language,
     content |-> SliceContent(Salvaged(st), st.language, st.backticks)]

\* The whole of codeblock_converter, as a function of its argument.
RECURSIVE ScanFrom(_, _)
ScanFrom(st, s) == IF s = <<>> THEN st ELSE ScanFrom(ScanStep(st, Head(s)), Tail(s))

codeblock_converter(s) ==
    IF ~StartsWith(s, <<Tick>>) THEN [language |-> None, content |-> s]
    ELSE MakeResult(ScanFrom(InitScan, s))

(***************************************************************************)
(* CodeblockFromMessage                                                    *)
(***************************************************************************)
Fence == Ticks(3)

\* The first token of contents that contains the fence, or 0.
FirstFenced(contents) ==
    LET hits == {k \in 1..Len(contents) : Find(contents[k], Fence) # -1}
    IN  IF hits = {} THEN 0 ELSE CHOOSE k \in hits : \A h \in hits : k <= h

\* remove_before_codeblock, applied to message.content; None when it
\* returns None.
remove_before_codeblock(content) ==
    LET contents == Split(content)
        k == FirstFenced(contents)
    IN  IF Len(contents) = 0 THEN None
        ELSE IF k = 0 THEN Join(contents)
        ELSE LET string == contents[k]
                 cut == PySlice(string, Find(string, Fence), Len(string))
             IN  Join([contents EXCEPT ![1] = cut])

\* x or y, for an Optional[str] x
PyOr(x, y) == IF x = None \/ x = <<>> THEN y ELSE x

\* What the try statement of convert meets: MessageConverter().convert
\* returns a message, raises MessageNotFound, or raises something else
\* ("error"); or it returns a message and remove_before_codeblock raises
\* ("striperror").
Outcomes == {"found", "notfound", "error", "striperror"}

\* Lines 182-183 with the return moved out of the finally clause: only what
\* the except clause catches is kept from the caller.
Returns_afterTry(outcome) == outcome \in {"found", "notfound"}

\* Lines 182-183: the return in the finally clause discards whatever the
\* try, except and else clauses raised.
Returns(outcome) == outcome \in Outcomes

\* Lines 176-183 with the raw argument dropped when no message is found.
Resolved_dropsArgument(arg, outcome, content) ==
    IF outcome = "found" THEN PyOr(remove_before_codeblock(content), arg)
    ELSE IF outcome = "notfound" THEN <<>>
    ELSE arg

\* The string convert hands to codeblock_converter (lines 176-183).
Resolved(arg, outcome, content) ==
    IF outcome = "found" THEN PyOr(remove_before_codeblock(content), arg)
    ELSE arg

(***************************************************************************)
(* The state machine.                                                      *)
(***************************************************************************)
NoResult == [language |-> None, content |-> <<>>]

Cur ==
    [last |-> last, backticks |-> backticks, in_language |-> in_language,
     in_code |-> in_code, language |-> language, code |-> code]

SetScan(st) ==
    /\ last' = st.last
    /\ backticks' = st.backticks
    /\ in_language' = st.in_language
    /\ in_code' = st.in_code
    /\ language' = st.language
    /\ code' = st.code

Init ==
    /\ pc = "idle"
    /\ caller = "none"
    /\ rawArg = <<>>
    /\ lookup = "none"
    /\ message = <<>>
    /\ argument = <<>>
    /\ i = 0
    /\ last = <<>>
    /\ backticks = 0
    /\ in_language = FALSE
    /\ in_code = FALSE
    /\ language = <<>>
    /\ code = <<>>
    /\ result = NoResult

\* Entry of codeblock_converter(s) with the early return giving an empty
\* language instead of None.
Enter_emptyLanguage(s) ==
    /\ argument' = s
    /\ i' = 0
    /\ SetScan(InitScan)
    /\ IF ~StartsWith(s, <<Tick>>)
       THEN pc' = "done" /\ result' = [language |-> <<>>, content |-> s]
       ELSE pc' = "scan" /\ result' = NoResult

\* Entry of codeblock_converter(s): lines 117-126.
Enter(s) ==
    /\ argument' = s
    /\ i' = 0
    /\ SetScan(InitScan)
    /\ IF ~StartsWith(s, <<Tick>>)
       THEN pc' = "done" /\ result' = [language |-> None, content |-> s]
       ELSE pc' = "scan" /\ result' = NoResult

\* A direct call codeblock_converter(s), as get_input makes.
CallConverter(s) ==
    /\ pc = "idle"
    /\ caller' = "direct"
    /\ rawArg' = s
    /\ UNCHANGED <<lookup, message>>
    /\ Enter(s)

\* CodeblockFromMessage.convert(ctx, arg), up to its call of
\* codeblock_converter; pc = "raised" is an exception reaching the caller.
Convert(arg, outcome, content) ==
    /\ pc = "idle"
    /\ caller' = "convert"
    /\ rawArg' = arg
    /\ lookup' = outcome
    /\ message' = content
    /\ IF Returns(outcome)
       THEN Enter(Resolved(arg, outcome, content))
       ELSE /\ pc' = "raised"
            /\ UNCHANGED <<argument, i, result>>
            /\ UNCHANGED scanVars

\* One iteration of the loop: lines 128-145.
ScanChar ==
    /\ pc = "scan"
    /\ i < Len(argument)
    /\ SetScan(ScanStep(Cur, argument[i + 1]))
    /\ i' = i + 1
    /\ UNCHANGED <<pc, caller, rawArg, lookup, message, argument, result>>

\* After the loop: lines 147-150.
Finish ==
    /\ pc = "scan"
    /\ i = Len(argument)
    /\ code' = Salvaged(Cur)
    /\ result' = MakeResult(Cur)
    /\ pc' = "done"
    /\ UNCHANGED <<caller, rawArg, lookup, message, argument, i,
                   last, backticks, in_language, in_code, language>>

\* The calls start from the idle state only; the guard is repeated here in
\* front of the choice of the inputs.
Next ==
    \/ pc = "idle" /\ \E s \in DirectArgs : CallConverter(s)
    \/ pc = "idle" /\ \E arg \in RawArgs, content \in StrUpTo(MaxMsg) :
                          Convert(arg, "found", content)
    \/ pc = "idle" /\ \E arg \in RawArgs, outcome \in Outcomes \ {"found"} :
                          Convert(arg, outcome, <<>>)
    \/ ScanChar
    \/ Finish

Spec == Init /\ [][Next]_vars

\* The loop is never suspended: a call that has started runs to its return.
FairSpec == Spec /\ WF_vars(ScanChar) /\ WF_vars(Finish)

(***************************************************************************)
(* Shapes of arguments that the properties speak about.                    *)
(***************************************************************************)
BeginsWithTick(s) == Len(s) > 0 /\ s[1] = Tick

NoTick(s) == \A k \in 1..Len(s) : s[k] # Tick

HasFence(s) == \E k \in 1..(Len(s) - 2) : s[k] = Tick /\ s[k + 1] = Tick /\ s[k + 2] = Tick

AllTicks(s) == \A k \in 1..Len(s) : s[k] = Tick

\* The position of the first newline of s, or 0.
FirstNL(s) ==
    IF \E k \in 1..Len(s) : s[k] = NL
    THEN CHOOSE k \in 1..Len(s) : s[k] = NL /\ \A j \in 1..(k - 1) : s[j] # NL
    ELSE 0

\* s is three backticks, a non-empty tag of letters, a newline, a body
\* without three backticks in a row, and three backticks.
TagOf(s) == SubSeq(s, 4, FirstNL(s) - 1)
TaggedBodyOf(s) == SubSeq(s, FirstNL(s) + 1, Len(s) - 3)
IsTaggedBlock(s) ==
    /\ Len(s) >= 8
    /\ SubSeq(s, 1, 3) = <<Tick, Tick, Tick>>
    /\ FirstNL(s) >= 5
    /\ FirstNL(s) <= Len(s) - 3
    /\ \A k \in 4..(FirstNL(s) - 1) : s[k] = Letter
    /\ SubSeq(s, Len(s) - 2, Len(s)) = <<Tick, Tick, Tick>>
    /\ ~HasFence(TaggedBodyOf(s))

\* s is three backticks, a newline, a body without any backtick, and three
\* backticks.
PlainBodyOf(s) == SubSeq(s, 5, Len(s) - 3)
IsPlainBlock(s) ==
    /\ Len(s) >= 7
    /\ SubSeq(s, 1, 4) = <<Tick, Tick, Tick, NL>>
    /\ SubSeq(s, Len(s) - 2, Len(s)) = <<Tick, Tick, Tick>>
    /\ NoTick(PlainBodyOf(s))

\* s is k backticks, a non-empty body without any backtick, and k backticks.
InlineBodyOf(s, k) == SubSeq(s, k + 1, Len(s) - k)
IsInline(s, k) ==
    /\ Len(s) > 2 * k
    /\ AllTicks(SubSeq(s, 1, k))
    /\ AllTicks(SubSeq(s, Len(s) - k + 1, Len(s)))
    /\ NoTick(InlineBodyOf(s, k))

(***************************************************************************)
(* C1: an argument that does not begin with a backtick (the empty one      *)
(* included) is returned with language None and itself as content, and    *)
(* the loop does not run for it.                                           *)
(***************************************************************************)
C1_FastPath ==
    (pc # "idle" /\ ~BeginsWithTick(argument)) =>
        /\ pc = "done"
        /\ result = [language |-> None, content |-> argument]
        /\ i = 0
        /\ Cur = InitScan

C1_Witness ==
    /\ pc = "done"
    /\ Len(argument) >= 2
    /\ argument[1] # Tick
    /\ argument[2] = Tick
    /\ result.language = None

(***************************************************************************)
(* C2: scanning three backticks, a tag of letters, a newline, a body       *)
(* without three backticks in a row and three backticks returns the tag    *)
(* as language and the body as content.                                    *)
(***************************************************************************)
C2_RoundTrip ==
    (pc = "done" /\ IsTaggedBlock(argument)) =>
        result = [language |-> TagOf(argument), content |-> TaggedBodyOf(argument)]

(***************************************************************************)
(* C3: scanning three backticks, a newline, a body without backticks and   *)
(* three backticks returns the empty language and the body as content:     *)
(* the newline after the opening fence is not part of content.             *)
(***************************************************************************)
C3_PlainBlock ==
    (pc = "done" /\ IsPlainBlock(argument)) =>
        result = [language |-> <<>>, content |-> PlainBodyOf(argument)]

(***************************************************************************)
(* C4: for k = 1 and k = 2, scanning k backticks, a non-empty body without *)
(* backticks and k backticks returns the empty language and the body.      *)
(***************************************************************************)
C4_InlineFence ==
    \A k \in 1..2 :
        (pc = "done" /\ IsInline(argument, k)) =>
            result = [language |-> <<>>, content |-> InlineBodyOf(argument, k)]

C4_Witness ==
    /\ pc = "done"
    /\ IsInline(argument, 2)
    /\ result.content = <<Letter, NL>>

C6_Returned ==
    pc = "done" =>
        /\ i = (IF BeginsWithTick(argument) THEN Len(argument) ELSE 0)
        /\ result.content \in Seq(Chars)
        /\ (result.language = None \/ result.language \in Seq(Chars))
        /\ (BeginsWithTick(argument) /\ backticks + Len(language) >= Len(code))
              => result.content = <<>>

C6_Consumes ==
    (pc = "scan" /\ pc' = "scan") =>
        /\ i' = i + 1
        /\ argument' = argument
        /\ last'[Len(last')] = argument[i']

C6_Total ==
    /\ []C6_Returned
    /\ [][C6_Consumes]_vars
    /\ (pc = "scan") ~> (pc = "done")

C6_Witness ==
    /\ pc = "done"
    /\ language # <<>>
    /\ code # <<>>
    /\ backticks + Len(language) > Len(code)
    /\ result.content = <<>>

(***************************************************************************)
(* C7: an argument that begins with a backtick fence and has no closing    *)
(* fence is returned with language None and itself as content.             *)
(***************************************************************************)
\* The length of the leading run of backticks of s.
LeadTicks(s) ==
    CHOOSE k \in 0..Len(s) :
        AllTicks(SubSeq(s, 1, k)) /\ (k = Len(s) \/ s[k + 1] # Tick)

\* s has text after its leading run of backticks and no backtick in it.
Unclosed(s) ==
    /\ LeadTicks(s) < Len(s)
    /\ NoTick(SubSeq(s, LeadTicks(s) + 1, Len(s)))

C7_IncompleteIsRaw ==
    (pc = "done" /\ BeginsWithTick(argument) /\ Unclosed(argument)) =>
        result = [language |-> None, content |-> argument]

(***************************************************************************)
(* C8: when the lookup reports that no message was found, convert hands    *)
(* the raw argument to the scanner and returns what codeblock_converter    *)
(* returns for the raw argument.                                           *)
(***************************************************************************)
C8_NotFoundFallback ==
    (caller = "convert" /\ lookup = "notfound") =>
        /\ pc \in {"scan", "done"}
        /\ argument = rawArg
        /\ pc = "done" => result = codeblock_converter(rawArg)

C8_Witness ==
    /\ pc = "done"
    /\ caller = "convert"
    /\ lookup = "notfound"
    /\ rawArg = <<Tick, Letter>>
    /\ result.language = <<>>

(***************************************************************************)
(* C9: when the lookup succeeds and the message text contains three        *)
(* backticks in a row, the string handed to the scanner is the message     *)
(* text from its first three backticks on, whichever token they are in.    *)
(***************************************************************************)
\* The position of the first three backticks in a row of s.
FirstFencePos(s) ==
    CHOOSE k \in 1..(Len(s) - 2) :
        /\ SubSeq(s, k, k + 2) = <<Tick, Tick, Tick>>
        /\ \A j \in 1..(k - 1) : SubSeq(s, j, j + 2) # <<Tick, Tick, Tick>>

C9_StripBeforeFence ==
    (caller = "convert" /\ lookup = "found" /\ HasFence(message)) =>
        argument = SubSeq(message, FirstFencePos(message), Len(message))

(***************************************************************************)
(* C10: for an argument that opens with a fence of k backticks, k in 1..3, *)
(* and later contains a run of k backticks, the content is made of         *)
(* characters of the argument that lie after the opening fence and before  *)
(* that closing run, in their order.                                       *)
(***************************************************************************)
\* The position where the first run of k backticks after the opening fence
\* of k backticks starts, or 0.
CloseStart(s) ==
    LET k == LeadTicks(s)
        runs == {j \in (k + 1)..(Len(s) - k + 1) : AllTicks(SubSeq(s, j, j + k - 1))}
    IN  IF runs = {} THEN 0 ELSE CHOOSE j \in runs : \A h \in runs : j <= h

Closed(s) == LeadTicks(s) \in 1..3 /\ CloseStart(s) # 0

Between(s) == SubSeq(s, LeadTicks(s) + 1, CloseStart(s) - 1)

\* c can be obtained from s by deleting characters.
RECURSIVE IsSubseq(_, _)
IsSubseq(c, s) ==
    IF c = <<>> THEN TRUE
    ELSE IF s = <<>> THEN FALSE
    ELSE IF Head(c) = Head(s) THEN IsSubseq(Tail(c), Tail(s))
    ELSE IsSubseq(c, Tail(s))

C10_ContentBetweenFences ==
    (pc = "done" /\ Closed(argument)) =>
        IsSubseq(result.content, Between(argument))

(***************************************************************************)
(* C11: a returned language that is not empty is the text of the argument  *)
(* between the opening fence and the first newline; it has no character    *)
(* from after the first newline and, when a closing fence follows the      *)
(* opening one, no backtick.                                               *)
(***************************************************************************)
C11_LanguageIsTagLine ==
    (pc = "done" /\ result.language # None /\ result.language # <<>>) =>
        /\ FirstNL(argument) # 0 =>
              result.language =
                  SubSeq(argument, LeadTicks(argument) + 1, FirstNL(argument) - 1)
        /\ Closed(argument) => NoTick(result.language)

(***************************************************************************)
(* C12: for a non-empty body without backtick and newline, scanning the    *)
(* body between single backticks and scanning it between triple backticks  *)
(* return the same language and content.                                   *)
(***************************************************************************)
NoNL(s) == \A k \in 1..Len(s) : s[k] # NL

C12_FenceLengthIrrelevant ==
    (pc = "done" /\ IsInline(argument, 1) /\ NoNL(argument)) =>
        result = codeblock_converter(
                     <<Tick, Tick, Tick>> \o InlineBodyOf(argument, 1)
                                          \o <<Tick, Tick, Tick>>)

(***************************************************************************)
(* C13: when the lookup succeeds and the message text has no three         *)
(* backticks in a row, the string handed to the scanner is the message     *)
(* text if it is not empty, and the raw argument if it is.                 *)
(***************************************************************************)
C13_PassThrough ==
    (caller = "convert" /\ lookup = "found" /\ ~HasFence(message)) =>
        /\ pc \in {"scan", "done"}
        /\ argument = (IF message # <<>> THEN message ELSE rawArg)

C13_Witness ==
    /\ pc = "done"
    /\ caller = "convert"
    /\ lookup = "found"
    /\ message = <<Tick, Space, Space, Letter>>
    /\ argument = message

(***************************************************************************)
(* C14: in a scan of an argument that begins with a backtick the counter   *)
(* is raised once for each backtick of the leading run and is not changed  *)
(* once a character that is not a backtick has been processed: that        *)
(* character sets in_code, which is never cleared.  At the end the counter *)
(* is the length of the leading run, which is at least 1.                  *)
(***************************************************************************)
C14_Counter ==
    (pc \in {"scan", "done"} /\ BeginsWithTick(argument)) =>
        /\ backticks = Min(i, LeadTicks(argument))
        /\ i > LeadTicks(argument) => in_code
        /\ pc = "done" => backticks = LeadTicks(argument) /\ backticks >= 1

C14_Kept ==
    (pc = "scan" /\ in_code) => (in_code' /\ backticks' = backticks)

C14_FenceCounter == []C14_Counter /\ [][C14_Kept]_vars

C14_Witness ==
    /\ pc = "done"
    /\ LeadTicks(argument) = 2
    /\ backticks = 2
    /\ \E k \in 4..Len(argument) : argument[k] = Tick

(***************************************************************************)
(* C15: the step that processes the first newline of an argument that      *)
(* begins with a backtick clears in_language, sets in_code, and appends    *)
(* the newline to neither the language buffer nor the code buffer.         *)
(***************************************************************************)
C15_Step ==
    (pc = "scan" /\ i < Len(argument) /\ FirstNL(argument) = i + 1) =>
        /\ ~in_language'
        /\ in_code'
        /\ language' = language
        /\ code' = code

C15_NewlineDropped == [][C15_Step]_vars

(***************************************************************************)
(* C16: for an argument that begins with a backtick and nowhere has three  *)
(* backticks in a row directly followed by a character that is neither a   *)
(* backtick nor a newline, in_language is never set and the language       *)
(* returned is the empty string.                                           *)
(***************************************************************************)
HasTagStart(s) ==
    \E k \in 1..(Len(s) - 3) :
        /\ SubSeq(s, k, k + 2) = <<Tick, Tick, Tick>>
        /\ s[k + 3] \notin {Tick, NL}

C17_SalvageOnlyTicks ==
    (pc = "scan" /\ i = Len(argument)) =>
        /\ (code = <<>> /\ language = <<>>) <=> AllTicks(argument)
        /\ ~AllTicks(argument) => code # <<>>

C17_Witness ==
    /\ pc = "scan"
    /\ i = Len(argument)
    /\ argument = <<Tick, Tick, Tick, NL>>
    /\ code = <<NL>>

(***************************************************************************)
(* C18: when the lookup or the stripping raises an exception, of whatever  *)
(* kind, convert lets none reach the caller and returns what               *)
(* codeblock_converter returns for the raw argument.                       *)
(***************************************************************************)
C18_AlwaysReturns ==
    /\ pc # "raised"
    /\ (caller = "convert" /\ lookup \in {"error", "striperror"}) =>
          /\ argument = rawArg
          /\ pc = "done" => result = codeblock_converter(rawArg)

C18_Witness ==
    /\ pc = "done"
    /\ caller = "convert"
    /\ lookup = "striperror"
    /\ rawArg = <<Tick, Letter>>
    /\ result = [language |-> <<>>, content |-> <<>>]

====
